---- MODULE Spec2Model ----
(***************************************************************************)
(* A model of cnf2lightswitch.py: the translation of a DIMACS CNF file and *)
(* a stream of solver assignment lines ("v ...") into beamer/tikz          *)
(* directives (switches, lights, wires, per-solution overlays).            *)
(*                                                                         *)
(* Input lines are records [start, toks]: start is the prefix the code     *)
(* tests with startswith ("c ", "p cnf", "v " or "" for anything else)     *)
(* and toks the whitespace separated tokens that follow it.  A token is a  *)
(* record [int, val]: int says whether Python's int() accepts it, val is   *)
(* the integer it denotes.                                                 *)
(*                                                                         *)
(* The output is the sequence out of directives, one per print call that   *)
(* draws something.  A directive is a record                               *)
(*   [kind, c, v, s, t, ov]                                                *)
(* kind : "begin" | "switch" | "light" | "wire" | "comment" |              *)
(*        "switchstate" | "lightstate" | "end"                             *)
(* c, v : the light (clause) and switch (variable) it names, 0 if none     *)
(* s    : bend side of a wire, or "on"/"off" of a state directive          *)
(* t    : the switch face a wire is attached to ("east"/"west")            *)
(* ov   : the beamer overlay specification: <<>> none, <<k>> for "<k>"     *)
(***************************************************************************)
EXTENDS Integers, Sequences, FiniteSets, TLC

VARIABLES pc, err, line, n, m, scale, lit_to_clauses, i, cnf, sol, layer, out,
          d, r

vars == <<pc, err, line, n, m, scale, lit_to_clauses, i, cnf, sol, layer, out,
          d, r>>

(* ------------------------------ bounds -------------------------------- *)

\* variables declared by the header are 0..MaxVar; literals are -MaxVar..MaxVar
MaxVar == 1
\* clause counts declared by the header are 0..MaxDeclared
MaxDeclared == 2
\* size of the input read after the header, from the formula file and the
\* assignment stream together: one for each line and one for each token
MaxInput == 5
\* the wiring is checked on formulas over MaxWireVar variables, read up to an
\* input size of MaxWireInput
MaxWireVar == 4
MaxWireInput == 5
\* dimacs2index is called on the literals -MaxIndexLit..MaxIndexLit
MaxIndexLit == 5

(* ------------------------------ helpers ------------------------------- *)

Abs(x) == IF x < 0 THEN -x ELSE x

Max(a, b) == IF a >= b THEN a ELSE b

Min(a, b) == IF a <= b THEN a ELSE b

Range(s) == {s[k] : k \in DOMAIN s}

RECURSIVE SortedSeq(_)
SortedSeq(S) ==
  IF S = {} THEN <<>>
  ELSE LET x == CHOOSE y \in S : \A z \in S : y <= z
       IN  <<x>> \o SortedSeq(S \ {x})

RECURSIVE SumLen(_)
SumLen(ls) ==
  IF ls = <<>> THEN 0 ELSE Len(ls[1].toks) + SumLen(Tail(ls))

(* ------------------------------ inputs -------------------------------- *)

IntTok(v) == [int |-> TRUE, val |-> v]
Word == [int |-> FALSE, val |-> 0]

Tokens(K) == {IntTok(v) : v \in -K..K} \cup {Word}

TokSeqs(T, len) == UNION {[1..k -> T] : k \in 0..len}

Line(start, toks) == [start |-> start, toks |-> toks]

\* what readline can return while the header is looked for
HeaderLines(NS, MS) ==
  {Line("c ", <<>>), Line("", <<>>), Line("p cnf", <<>>),
   Line("p cnf", <<Word, IntTok(1)>>)}
  \cup {Line("p cnf", <<IntTok(a), IntTok(b)>>) : a \in NS, b \in MS}

ClauseLines(T, len) == {Line("", ts) : ts \in TokSeqs(T, len)}

StdinLines(T, len) ==
  {Line("v ", ts) : ts \in TokSeqs(T, len)}
  \cup {Line("", <<>>) : k \in 0..len}

(* ------------------------------ output -------------------------------- *)

Directive(kind, c, v, s, t, ov) ==
  [kind |-> kind, c |-> c, v |-> v, s |-> s, t |-> t, ov |-> ov]

\* faulty variant of Only: "<k->", from slide k on
OnlyFrom(k) == <<k, 0>>

\* \only<k>{...}: the overlay specification <k>
Only(k) == <<k>>

\* beamer: <k> shows the material on slide k; no specification, on every slide
VisibleAt(dir, j) ==
  CASE Len(dir.ov) = 0 -> TRUE
    [] Len(dir.ov) = 1 -> j = dir.ov[1]
    [] OTHER           -> j >= dir.ov[1]

(* --------------------------- the program ------------------------------ *)

\* int(s): ValueError unless the token is an integer numeral
IsInt(tok) == tok.int
int(tok) == tok.val

\* faulty variant of dimacs2index: the sign is dropped
dimacs2indexUnsigned(l) == IF l = 0 THEN 0 ELSE Abs(l) * 2

dimacs2index(l) ==
  IF l = 0 THEN 0
  ELSE IF l > 0 THEN l * 2
  ELSE (-l * 2) + 1

\* scale as the fraction <<numerator, denominator>>
ScaleOf(nv, mc) ==
  IF nv <= 5 /\ mc <= 5 THEN <<1, 1>> ELSE <<5, Max(nv, mc)>>

latex_header == <<Directive("begin", 0, 0, "", "", <<>>)>>

latex_footer == <<Directive("end", 0, 0, "", "", <<>>)>>

\* \uncover<1>: switch 1 is printed whatever nv is, then switches 2..nv
declare_variables(nv) ==
  <<Directive("switch", 0, 1, "", "", <<1>>)>> \o
  [k \in 1..(nv - 1) |-> Directive("switch", 0, k + 1, "", "", <<1>>)]

declare_clauses(mc) ==
  <<Directive("light", 1, 0, "off", "", <<1>>)>> \o
  [k \in 1..(mc - 1) |-> Directive("light", k + 1, 0, "off", "", <<1>>)]

\* faulty variant of link_literal_to_clause: <= for < in the test of a positive literal
link_literal_to_clause_le(l, ci) ==
  IF l > 0
  THEN Directive("wire", ci, l, IF l + 1 <= ci THEN "right" ELSE "left",
                 "east", <<>>)
  ELSE Directive("wire", ci, -l, IF -l > ci + 2 THEN "left" ELSE "right",
                 "west", <<>>)

link_literal_to_clause(l, ci) ==
  IF l > 0
  THEN Directive("wire", ci, l, IF l + 1 < ci THEN "right" ELSE "left",
                 "east", <<>>)
  ELSE Directive("wire", ci, -l, IF -l > ci + 2 THEN "left" ELSE "right",
                 "west", <<>>)

\* handle_clause from token k on: the adjacency and the wires printed so far,
\* and the exception that ended the call, if one did
RECURSIVE HandleClauseFrom(_, _, _, _, _)
HandleClauseFrom(toks, k, ci, ltc, wires) ==
  IF k > Len(toks) THEN [ltc |-> ltc, out |-> wires, err |-> "none"]
  ELSE IF ~IsInt(toks[k]) THEN [ltc |-> ltc, out |-> wires, err |-> "ValueError"]
  ELSE LET l == int(toks[k]) IN
       IF l = 0 THEN HandleClauseFrom(toks, k + 1, ci, ltc, wires)
       ELSE IF dimacs2index(l) \notin DOMAIN ltc
       THEN [ltc |-> ltc, out |-> wires, err |-> "IndexError"]
       ELSE HandleClauseFrom(toks, k + 1, ci,
              [ltc EXCEPT ![dimacs2index(l)] = Append(@, ci)],
              Append(wires, link_literal_to_clause(l, ci)))

handle_clause(clause, ci, ltc) == HandleClauseFrom(clause.toks, 1, ci, ltc, <<>>)

\* faulty variant of Update: a clause met twice is taken out again
UpdateToggle(sat, bucket) ==
  (sat \ Range(bucket)) \cup (Range(bucket) \ sat)

\* satisfied_clauses.update(bucket)
Update(sat, bucket) == sat \cup Range(bucket)

SwitchState(l, ly) ==
  IF l > 0 THEN Directive("switchstate", 0, l, "on", "", Only(ly))
  ELSE Directive("switchstate", 0, -l, "off", "", Only(ly))

LightState(c, s, ly) == Directive("lightstate", c, 0, s, "", Only(ly))

\* faulty variant of UnlitClauses: range(1,m)
UnlitClausesShort(sat) == (1..(m - 1)) \ sat

\* set(range(1,m+1)).difference(satisfied_clauses)
UnlitClauses(sat) == (1..m) \ sat

\* the first loop of handle_solution_line from token k on
RECURSIVE SolutionFrom(_, _, _, _, _)
SolutionFrom(toks, k, ly, sat, o) ==
  IF k > Len(toks) THEN [sat |-> sat, out |-> o, err |-> "none"]
  ELSE IF ~IsInt(toks[k]) THEN [sat |-> sat, out |-> o, err |-> "ValueError"]
  ELSE LET l == int(toks[k]) IN
       IF l = 0 THEN SolutionFrom(toks, k + 1, ly, sat, o)
       ELSE IF dimacs2index(l) \notin DOMAIN lit_to_clauses
       THEN [sat |-> sat, out |-> o, err |-> "IndexError"]
       ELSE SolutionFrom(toks, k + 1, ly,
              Update(sat, lit_to_clauses[dimacs2index(l)]),
              Append(o, SwitchState(l, ly)))

\* Python leaves the iteration order of a set open; the lights of one state are
\* listed here by increasing clause index
handle_solution_line(ln, ly) ==
  LET first == SolutionFrom(ln.toks, 1, ly, {},
                            <<Directive("comment", 0, 0, "", "", <<>>)>>)
      on  == SortedSeq(first.sat)
      off == SortedSeq(UnlitClauses(first.sat))
  IN  IF first.err # "none" THEN [out |-> first.out, err |-> first.err]
      ELSE [out |-> first.out
                    \o [k \in 1..Len(on) |-> LightState(on[k], "on", ly)]
                    \o [k \in 1..Len(off) |-> LightState(off[k], "off", ly)],
            err |-> "none"]

\* faulty variant of NextLayer: the increment is lost
SameLayer(ly) == ly

\* i += 1 of wait_for_solution
NextLayer(ly) == ly + 1

\* what lines 168-171 raise on the first line that is no comment
HeaderError(ln) ==
  IF ln.start # "p cnf" THEN "AssertionError"
  ELSE IF Len(ln.toks) < 1 THEN "IndexError"
  ELSE IF ~IsInt(ln.toks[1]) THEN "ValueError"
  ELSE IF Len(ln.toks) < 2 THEN "IndexError"
  ELSE IF ~IsInt(ln.toks[2]) THEN "ValueError"
  ELSE "none"

\* what lines 177-179 print once the header is parsed
Preamble(nv, mc) == latex_header \o declare_variables(nv) \o declare_clauses(mc)

\* faulty variant of HeaderOutput: latex_header is called before the header is checked
HeaderPrintedFirst(ln, nv, mc) ==
  IF HeaderError(ln) # "none" THEN latex_header ELSE Preamble(nv, mc)

\* what lines 168-179 print for the first line that is no comment: nothing
\* when a statement before latex_header raises
HeaderOutput(ln, nv, mc) ==
  IF HeaderError(ln) # "none" THEN <<>> ELSE Preamble(nv, mc)

\* the size of the input read so far, and what a bound K on it leaves for the
\* tokens of one more line
InputSize == Len(cnf) + SumLen(cnf) + Len(sol) + SumLen(sol)
Room(K) == K - InputSize - 1

(* ------------------------------ actions ------------------------------- *)

callVars == <<d, r>>

Start(HL) ==
  /\ pc = "header" /\ err = "none" /\ line \in HL
  /\ n = 0 /\ m = 0 /\ scale = <<0, 0>>
  /\ lit_to_clauses = <<>> /\ i = 0 /\ layer = 0
  /\ cnf = <<>> /\ sol = <<>> /\ out = <<>>
  /\ d = <<>> /\ r = <<>>

\* line 165-166: one turn of the loop that skips the leading comments
SkipComment(HL) ==
  /\ pc = "header"
  /\ line.start = "c "
  /\ line' \in HL
  /\ UNCHANGED <<pc, err, n, m, scale, lit_to_clauses, i, cnf, sol, layer, out>>
  /\ UNCHANGED callVars

\* lines 168-183: the header, the preamble, the empty adjacency
ParseHeader ==
  /\ pc = "header"
  /\ line.start # "c "
  /\ IF HeaderError(line) # "none"
     THEN /\ pc' = "aborted"
          /\ err' = HeaderError(line)
          /\ out' = out \o HeaderOutput(line, n, m)
          /\ UNCHANGED <<n, m, scale, lit_to_clauses, i>>
     ELSE /\ n' = int(line.toks[1])
          /\ m' = int(line.toks[2])
          /\ scale' = ScaleOf(n', m')
          /\ out' = out \o HeaderOutput(line, n', m')
          /\ lit_to_clauses' = [k \in 0..(2 * n' + 1) |-> <<>>]
          /\ i' = 1
          /\ pc' = "clauses"
          /\ err' = err
  /\ UNCHANGED <<line, cnf, sol, layer>>
  /\ UNCHANGED callVars

\* lines 184-186: one turn of the clause loop
ReadClause(CL) ==
  /\ pc = "clauses"
  /\ \E ln \in CL :
       /\ LET res == handle_clause(ln, i, lit_to_clauses) IN
            /\ cnf' = Append(cnf, ln)
            /\ lit_to_clauses' = res.ltc
            /\ out' = out \o res.out
            /\ err' = res.err
            /\ IF res.err = "none"
               THEN /\ i' = i + 1 /\ pc' = pc
               ELSE /\ i' = i /\ pc' = "aborted"
  /\ UNCHANGED <<line, n, m, scale, sol, layer>>
  /\ UNCHANGED callVars

\* the formula file is exhausted: line 189 calls wait_for_solution, line 150
EndOfFormula ==
  /\ pc = "clauses"
  /\ pc' = "solutions"
  /\ layer' = 2
  /\ UNCHANGED <<err, line, n, m, scale, lit_to_clauses, i, cnf, sol, out>>
  /\ UNCHANGED callVars

\* lines 151-154: one turn of the loop over sys.stdin
ReadStdin(SL) ==
  /\ pc = "solutions"
  /\ \E ln \in SL :
       /\ sol' = Append(sol, ln)
       /\ IF ln.start = "v "
          THEN LET res == handle_solution_line(ln, layer) IN
                 /\ out' = out \o res.out
                 /\ err' = res.err
                 /\ IF res.err = "none"
                    THEN /\ layer' = NextLayer(layer) /\ pc' = pc
                    ELSE /\ layer' = layer /\ pc' = "aborted"
          ELSE UNCHANGED <<out, err, layer, pc>>
  /\ UNCHANGED <<line, n, m, scale, lit_to_clauses, i, cnf>>
  /\ UNCHANGED callVars

\* sys.stdin is exhausted: line 191
EndOfStdin ==
  /\ pc = "solutions"
  /\ out' = out \o latex_footer
  /\ pc' = "done"
  /\ UNCHANGED <<err, line, n, m, scale, lit_to_clauses, i, cnf, sol, layer>>
  /\ UNCHANGED callVars

(* --------------------------- specifications --------------------------- *)

Headers == HeaderLines(0..MaxVar, 0..MaxDeclared)

Init == Start(Headers)

Next ==
  \/ SkipComment(Headers)
  \/ ParseHeader
  \/ ReadClause(ClauseLines(Tokens(MaxVar), Room(MaxInput)))
  \/ EndOfFormula
  \/ ReadStdin(StdinLines(Tokens(MaxVar), Room(MaxInput)))
  \/ EndOfStdin

Spec == Init /\ [][Next]_vars

\* the same program on formulas wide enough for every bend of a wire
WireHeaders == HeaderLines({MaxWireVar}, {MaxWireVar})

InitWire == Start(WireHeaders)

NextWire ==
  \/ SkipComment(WireHeaders)
  \/ ParseHeader
  \/ ReadClause(ClauseLines(Tokens(MaxWireVar), Room(MaxWireInput)))
  \/ EndOfFormula
  \/ ReadStdin(StdinLines(Tokens(MaxWireVar), Min(Room(MaxWireInput), 0)))
  \/ EndOfStdin

SpecWire == InitWire /\ [][NextWire]_vars

\* dimacs2index alone, called on two literals
InitIndex ==
  /\ pc = "call" /\ err = "none" /\ line = Line("", <<>>)
  /\ n = 0 /\ m = 0 /\ scale = <<0, 0>>
  /\ lit_to_clauses = <<>> /\ i = 0 /\ layer = 0
  /\ cnf = <<>> /\ sol = <<>> /\ out = <<>>
  /\ d \in (-MaxIndexLit..MaxIndexLit) \X (-MaxIndexLit..MaxIndexLit)
  /\ r = <<>>

CallIndex ==
  /\ pc = "call"
  /\ r' = <<dimacs2index(d[1]), dimacs2index(d[2])>>
  /\ pc' = "return"
  /\ UNCHANGED <<err, line, n, m, scale, lit_to_clauses, i, cnf, sol, layer,
                 out, d>>

NextIndex == CallIndex

SpecIndex == InitIndex /\ [][NextIndex]_vars

(* ------------------------- reading the state -------------------------- *)

\* the nonzero literals among the tokens of a line
LitsOf(toks) ==
  {toks[k].val : k \in {j \in DOMAIN toks : toks[j].int /\ toks[j].val # 0}}

\* where an exception ended the run
RaisedInHeader  == pc = "aborted" /\ cnf = <<>> /\ sol = <<>>
RaisedInClauses == pc = "aborted" /\ cnf # <<>> /\ sol = <<>>
RaisedInStdin   == pc = "aborted" /\ sol # <<>>

\* the clause loop has ended
ClausesRead == pc \in {"solutions", "done"} \/ RaisedInStdin

IsMarker(k) == sol[k].start = "v "

\* the marker lines among the first k lines of the assignment stream
MarkersUpTo(k) == Cardinality({j \in 1..k : IsMarker(j)})

\* handle_solution_line returned from line k of the assignment stream
Completed(k) == ~(RaisedInStdin /\ k = Len(sol))

IsState(j) == out[j].kind \in {"switchstate", "lightstate"}

\* the "% solution" comments printed up to directive j: the number of the call of
\* handle_solution_line that printed directive j
BlockOf(j) == Cardinality({q \in 1..j : out[q].kind = "comment"})

LightsOf(c, ly) ==
  {j \in DOMAIN out :
     out[j].kind = "lightstate" /\ out[j].c = c /\ out[j].ov = <<ly>>}

\* the last slide of the frame: the largest slide number an overlay names
LastLayer ==
  LET named == {1} \cup {out[j].ov[1] : j \in {q \in DOMAIN out : Len(out[q].ov) > 0}}
  IN  CHOOSE x \in named : \A y \in named : y <= x

(* ------------------------------- claims ------------------------------- *)

\* C1: for every assignment line that handle_solution_line handled, at its layer
\* every clause 1..m has exactly one light-state directive, "on" exactly when the
\* clause line of that index holds a nonzero literal the assignment line asserts
\* with the same sign, "off" otherwise; a line on which the call raised has no
\* light-state directive at all
C1_LightsFollowClauses ==
  \A k \in DOMAIN sol :
    IsMarker(k) =>
      LET ly == 1 + MarkersUpTo(k)
          asserted == LitsOf(sol[k].toks)
          lit(c) == c <= Len(cnf) /\ LitsOf(cnf[c].toks) \cap asserted # {}
      IN  IF Completed(k)
          THEN \A c \in 1..m :
                 /\ Cardinality(LightsOf(c, ly)) = 1
                 /\ \A j \in LightsOf(c, ly) :
                      /\ out[j].s \in {"on", "off"}
                      /\ out[j].s = "on" <=> lit(c)
          ELSE \A c \in 1..m : LightsOf(c, ly) = {}

\* a finished run in which one layer shows light 1 on and light 2 off
C1_Witness ==
  /\ pc = "done"
  /\ \E a, b \in DOMAIN out :
       /\ out[a].kind = "lightstate" /\ out[a].c = 1 /\ out[a].s = "on"
       /\ out[b].kind = "lightstate" /\ out[b].c = 2 /\ out[b].s = "off"
       /\ out[a].ov = out[b].ov

\* the slot the claims give a nonzero literal
LiteralSlot(l) == IF l > 0 THEN 2 * l ELSE 2 * (-l) + 1

IsNonDecreasing(s) == \A a, b \in DOMAIN s : a <= b => s[a] <= s[b]

\* C2: once the clause loop has ended, clause index ci is in the bucket of literal
\* l exactly when clause line ci holds l with that sign, every bucket holds only
\* indices of lines read, in non-decreasing order, and slots 0 and 1 stay empty
C2_AdjacencyExact ==
  ClausesRead =>
    /\ \A ci \in 1..Len(cnf) :
         /\ LitsOf(cnf[ci].toks) \subseteq (-n..n)
         /\ \A l \in (-n..n) \ {0} :
              ci \in Range(lit_to_clauses[LiteralSlot(l)])
                <=> l \in LitsOf(cnf[ci].toks)
    /\ \A slot \in DOMAIN lit_to_clauses :
         /\ Range(lit_to_clauses[slot]) \subseteq 1..Len(cnf)
         /\ IsNonDecreasing(lit_to_clauses[slot])
         /\ slot \in {0, 1} => lit_to_clauses[slot] = <<>>

\* two clause lines share a literal, and another bucket is filled too
C2_Witness ==
  /\ ClausesRead
  /\ \E a, b \in DOMAIN lit_to_clauses :
       /\ a # b
       /\ Len(lit_to_clauses[a]) >= 2
       /\ lit_to_clauses[a][1] < lit_to_clauses[a][2]
       /\ lit_to_clauses[b] # <<>>

\* the state part of C3
C3_Ordinals ==
  /\ Cardinality({j \in DOMAIN out : out[j].kind = "comment"})
       = MarkersUpTo(Len(sol))
  /\ pc = "solutions" => layer = MarkersUpTo(Len(sol)) + 2
  /\ \A j \in DOMAIN out :
       IF IsState(j)
       THEN BlockOf(j) >= 1 /\ out[j].ov = <<BlockOf(j) + 1>>
       ELSE out[j].ov \in {<<>>, <<1>>}

\* the step part of C3: a line without the marker prints nothing and leaves the
\* ordinal alone
C3_Unmarked ==
  (Len(sol') = Len(sol) + 1 /\ sol'[Len(sol')].start # "v ")
    => (out' = out /\ layer' = layer /\ pc' = pc)

\* C3: the k-th marker line is rendered with layer ordinal k+1 (each marker line
\* opens one block of directives, all tagged with the number of the block plus
\* one), a line without the marker prints nothing and uses up no ordinal, and
\* without marker lines nothing is tagged with a layer above 1
C3_Layering == []C3_Ordinals /\ [][C3_Unmarked]_vars

\* marker, other, marker: the second marker line is drawn on layer 3
C3_Witness ==
  /\ pc = "done"
  /\ Len(sol) = 3
  /\ IsMarker(1) /\ ~IsMarker(2) /\ IsMarker(3)
  /\ \E j \in DOMAIN out : out[j].kind = "lightstate" /\ out[j].ov = <<3>>

\* C4: on two literals a and b, dimacs2index gives 2a for a > 0, 2|a|+1 for
\* a < 0 and 0 for 0; equal slots only for equal literals; a literal and its
\* negation differ; no nonzero literal gets slot 0; the slot halved is |a|
C4_IndexInjective ==
  pc = "return" =>
    LET a == d[1]
        b == d[2]
    IN  /\ (a > 0 => r[1] = 2 * a /\ r[1] % 2 = 0)
        /\ (a < 0 => r[1] = 2 * (-a) + 1 /\ r[1] % 2 = 1)
        /\ (a = 0 => r[1] = 0)
        /\ (a # 0 => r[1] # 0 /\ r[1] \div 2 = Abs(a))
        /\ (r[1] = r[2] <=> a = b)
        /\ (a # 0 /\ b = -a => r[1] # r[2])

\* the docstring's examples: 1 and -1 go to 2 and 3
C4_Witness == pc = "return" /\ d = <<1, -1>> /\ r = <<2, 3>>

\* C5: a run that ends on a first non-comment line without "p cnf" has printed
\* nothing
C5_NoOutputOnBadHeader ==
  (pc = "aborted" /\ line.start # "p cnf") => out = <<>>

C5_Witness ==
  /\ pc = "aborted" /\ err = "AssertionError" /\ line.start = "" /\ out = <<>>

\* the side the claim gives the wire of literal l of clause ci
ClaimedSide(l, ci) ==
  IF l > 0 THEN (IF l + 1 < ci THEN "right" ELSE "left")
  ELSE (IF Abs(l) > ci + 2 THEN "left" ELSE "right")

\* one <<light, switch, side>> for each nonzero literal of a line, in order
RECURSIVE ClaimedWires(_, _)
ClaimedWires(toks, ci) ==
  IF toks = <<>> THEN <<>>
  ELSE IF Head(toks).int /\ Head(toks).val # 0
  THEN <<<<ci, Abs(Head(toks).val), ClaimedSide(Head(toks).val, ci)>>>>
       \o ClaimedWires(Tail(toks), ci)
  ELSE ClaimedWires(Tail(toks), ci)

RECURSIVE ClaimedWiresUpTo(_)
ClaimedWiresUpTo(k) ==
  IF k = 0 THEN <<>>
  ELSE ClaimedWiresUpTo(k - 1) \o ClaimedWires(cnf[k].toks, k)

IsWire(dir) == dir.kind = "wire"

\* the wires printed, as <<light, switch, side>>
PrintedWires ==
  LET w == SelectSeq(out, IsWire)
  IN  [k \in DOMAIN w |-> <<w[k].c, w[k].v, w[k].s>>]

\* C6: the wires printed are, in order, one for each nonzero literal of each
\* clause line handled, from the light of the line's index to the switch |l|,
\* bent as the claim says; a line without nonzero literal adds none and still
\* uses up an index (a line on which handle_clause raised may have added some)
C6_Wires ==
  (pc \in {"clauses", "solutions", "done"} \/ RaisedInClauses \/ RaisedInStdin) =>
    LET handled == IF RaisedInClauses THEN Len(cnf) - 1 ELSE Len(cnf)
        claimed == ClaimedWiresUpTo(handled)
    IN  /\ i = handled + 1
        /\ Len(PrintedWires) >= Len(claimed)
        /\ SubSeq(PrintedWires, 1, Len(claimed)) = claimed
        /\ ~RaisedInClauses => PrintedWires = claimed

\* a negative literal bent left, a line without literal, then a positive literal
\* bent right on the third light
C6_Witness ==
  /\ pc = "done"
  /\ Len(cnf) = 3
  /\ LitsOf(cnf[2].toks) = {}
  /\ \E a, b \in DOMAIN out :
       /\ out[a].kind = "wire" /\ out[a].t = "west" /\ out[a].s = "left"
       /\ out[b].kind = "wire" /\ out[b].t = "east" /\ out[b].s = "right"
       /\ out[b].c = 3

\* C7: every clause index in a bucket, and every clause index a light-state
\* directive names, lies in 1..m
C7_IndicesWithinDeclared ==
  /\ \A slot \in DOMAIN lit_to_clauses : Range(lit_to_clauses[slot]) \subseteq 1..m
  /\ \A j \in DOMAIN out : out[j].kind = "lightstate" => out[j].c \in 1..m

\* a line with every repetition of a nonzero literal after its first removed
RECURSIVE Dedup(_)
Dedup(toks) ==
  IF toks = <<>> THEN <<>>
  ELSE LET front == Dedup(SubSeq(toks, 1, Len(toks) - 1))
           last  == toks[Len(toks)]
       IN  IF last.int /\ last.val # 0 /\ last.val \in LitsOf(front)
           THEN front ELSE Append(front, last)

\* the adjacency handle_clause builds from the first k lines read, each with
\* its repetitions removed
RECURSIVE DedupAdjacency(_)
DedupAdjacency(k) ==
  IF k = 0 THEN [slot \in 0..(2 * n + 1) |-> <<>>]
  ELSE handle_clause(Line("", Dedup(cnf[k].toks)), k, DedupAdjacency(k - 1)).ltc

\* the clauses a layer shows on
LitAt(ly) ==
  {out[j].c : j \in {q \in DOMAIN out :
     out[q].kind = "lightstate" /\ out[q].s = "on" /\ out[q].ov = <<ly>>}}

\* the assignment half of C8: the clauses line k lights are those the line
\* without its repetitions lights
C8_SatisfiedUnchanged ==
  \A k \in DOMAIN sol :
    (IsMarker(k) /\ Completed(k)) =>
      LitAt(1 + MarkersUpTo(k))
        = SolutionFrom(Dedup(sol[k].toks), 1, 1 + MarkersUpTo(k), {}, <<>>).sat

\* how often literal l stands on the lines read
RECURSIVE Occurrences(_, _)
Occurrences(l, k) ==
  IF k = 0 THEN 0
  ELSE Occurrences(l, k - 1)
       + Cardinality({j \in DOMAIN cnf[k].toks :
                        cnf[k].toks[j].int /\ cnf[k].toks[j].val = l})

\* C8 as stated: the adjacency is the one built from the lines without their
\* repetitions, and so is every satisfied-clause set
C8_DuplicatesChangeNothing ==
  pc \in {"clauses", "solutions", "done"} =>
    /\ lit_to_clauses = DedupAdjacency(Len(cnf))
    /\ C8_SatisfiedUnchanged

\* C8 amended: every bucket holds the same set of clause indices as without the
\* repetitions, but one entry for each occurrence of its literal; the
\* satisfied-clause sets are those of the lines without their repetitions
C8_DuplicatesKeepSets ==
  pc \in {"clauses", "solutions", "done"} =>
    /\ LET once == DedupAdjacency(Len(cnf))
       IN  \A slot \in DOMAIN lit_to_clauses :
             Range(lit_to_clauses[slot]) = Range(once[slot])
    /\ \A l \in (-n..n) \ {0} :
         Len(lit_to_clauses[LiteralSlot(l)]) = Occurrences(l, Len(cnf))
    /\ C8_SatisfiedUnchanged

\* an assignment line repeats a literal that lights a clause
C8_Witness ==
  /\ pc = "done"
  /\ \E k \in DOMAIN sol :
       /\ IsMarker(k)
       /\ \E a, b \in DOMAIN sol[k].toks :
            /\ a < b
            /\ sol[k].toks[a] = sol[k].toks[b]
            /\ sol[k].toks[a].int /\ sol[k].toks[a].val # 0
       /\ LitAt(1 + MarkersUpTo(k)) # {}

\* C9: no assignment line ends the run with an exception, and a run that has
\* read the whole stream has printed the footer last
C9_BadLineDoesNotAbort ==
  /\ ~RaisedInStdin
  /\ pc = "done" => out[Len(out)].kind = "end"

\* C10 as stated: a state directive of layer k is visible on every slide from k
\* to the last
C10_VisibleFromLayerOn ==
  \A j \in DOMAIN out :
    IsState(j) => \A q \in (BlockOf(j) + 1)..LastLayer : VisibleAt(out[j], q)

\* C10 amended: a state directive of layer k is visible on slide k and on no
\* other slide
C10_VisibleAtLayerOnly ==
  \A j \in DOMAIN out :
    IsState(j) => \A q \in 1..LastLayer : VisibleAt(out[j], q) <=> q = BlockOf(j) + 1

\* a state directive of a layer that a later layer follows
C10_Witness ==
  /\ pc = "done"
  /\ \E j \in DOMAIN out : IsState(j) /\ BlockOf(j) + 1 < LastLayer

====
